---- MODULE Spec2Model ----
(***************************************************************************)
(* Format converters of typesystem/formats.py: DateFormat, TimeFormat,     *)
(* DateTimeFormat, UUIDFormat, URLFormat and EmailFormat.                  *)
(*                                                                         *)
(* A Python str is a sequence of one-character strings.  A Python value is *)
(* a record with a "type" field naming its class.  The result of a call is *)
(* a record with a "tag" field: "ok" (a value was returned), "error" (a    *)
(* ValidationError was raised) or "raise" (another exception escaped).     *)
(***************************************************************************)
EXTENDS Integers, Sequences, FiniteSets, TLC

VARIABLES self, pc, value, outcome, isnative, text, again

vars == <<self, pc, value, outcome, isnative, text, again>>

(***************************************************************************)
(* Bounds of the inputs.                                                   *)
(***************************************************************************)
\* the longest run of fractional-second digits an input carries
MaxFrac == 13

(***************************************************************************)
(* Characters and the str methods the converters use.                      *)
(***************************************************************************)
DigitSeq == <<"0", "1", "2", "3", "4", "5", "6", "7", "8", "9">>

Digit == {DigitSeq[i] : i \in 1..Len(DigitSeq)}

LowerHex == Digit \cup {"a", "b", "c", "d", "e", "f"}

UpperHex == Digit \cup {"A", "B", "C", "D", "E", "F"}

Lower == {"a", "b", "c", "d", "e", "f", "g", "h", "i", "j", "k", "l", "m",
          "n", "o", "p", "q", "r", "s", "t", "u", "v", "w", "x", "y", "z"}

Upper == {"A", "B", "C", "D", "E", "F", "G", "H", "I", "J", "K", "L", "M",
          "N", "O", "P", "Q", "R", "S", "T", "U", "V", "W", "X", "Y", "Z"}

Space == {" ", "\t", "\n", "\r"}

\* the class \w
Word == Lower \cup Upper \cup Digit \cup {"_"}

DigitVal(c) == (CHOOSE i \in 1..Len(DigitSeq) : DigitSeq[i] = c) - 1

\* s[a..b] as Python's s[a-1:b], empty when the slice is empty
Slice(s, a, b) == IF a > b THEN <<>> ELSE SubSeq(s, a, b)

\* every character of s[a..b] lies in the class cls (and the slice lies in s)
AllIn(s, a, b, cls) == a >= 1 /\ b <= Len(s) /\ \A i \in a..b : s[i] \in cls

\* s has the literal lit at position p
HasAt(s, p, lit) == p >= 1 /\ p + Len(lit) - 1 <= Len(s)
                    /\ \A i \in 1..Len(lit) : s[p + i - 1] = lit[i]

\* the regex anchor $ at position p (before the character s[p]): the end of
\* the string, or just before a newline that ends the string
AtEnd(s, p) == p = Len(s) + 1 \/ (p = Len(s) /\ s[p] = "\n")

RECURSIVE ToInt(_)
\* int(s) of a string of decimal digits
ToInt(s) == IF s = <<>> THEN 0
            ELSE ToInt(SubSeq(s, 1, Len(s) - 1)) * 10 + DigitVal(s[Len(s)])

\* s.ljust(n, c)
LJust(s, n, c) == s \o [i \in 1..(IF n > Len(s) THEN n - Len(s) ELSE 0) |-> c]

RECURSIVE Digits(_)
\* the decimal digits of a natural number
Digits(n) == IF n < 10 THEN <<DigitSeq[n + 1]>>
             ELSE Digits(n \div 10) \o <<DigitSeq[(n % 10) + 1]>>

\* "%0<w>d" % n
ZFill(n, w) == LET d == Digits(n)
               IN  [i \in 1..(IF w > Len(d) THEN w - Len(d) ELSE 0) |-> "0"] \o d

RECURSIVE GreedyFrom(_, _)
\* the tuples of S that are greatest from component i on
GreedyFrom(S, i) ==
  LET n == Len(CHOOSE t \in S : TRUE)
      X == {t[i] : t \in S}
      top == CHOOSE x \in X : \A y \in X : x >= y
  IN  IF i > n THEN S ELSE GreedyFrom({t \in S : t[i] = top}, i + 1)

\* the match a backtracking matcher returns among the candidate matches S,
\* each the tuple of its greedy quantifiers' counts in pattern order: every
\* quantifier is greedy, so the first match found is the greatest tuple in
\* the lexicographic order
Greediest(S) == CHOOSE t \in GreedyFrom(S, 1) : TRUE

(***************************************************************************)
(* Values and results.                                                     *)
(***************************************************************************)
None == [type |-> "NoneType"]

Str(s) == [type |-> "str", chars |-> s]

Unset == [tag |-> "unset"]

Ok(v) == [tag |-> "ok", val |-> v]

Raise(exc) == [tag |-> "raise", exc |-> exc]

NoMatch == [matched |-> FALSE]

\* isinstance(v, cls): datetime.datetime is a subclass of datetime.date
IsInstance(v, cls) == \/ v.type = cls
                      \/ (v.type = "datetime" /\ cls = "date")

(***************************************************************************)
(* BaseFormat                                                              *)
(***************************************************************************)
Formats == {"DateFormat", "TimeFormat", "DateTimeFormat",
            "UUIDFormat", "URLFormat", "EmailFormat"}

\* the class attribute errors of each converter class
ClassErrors(cls) ==
  CASE cls = "DateFormat" ->
         [format |-> "Must be a valid date format.", invalid |-> "Must be a real date."]
    [] cls = "TimeFormat" ->
         [format |-> "Must be a valid time format.", invalid |-> "Must be a real time."]
    [] cls = "DateTimeFormat" ->
         [format |-> "Must be a valid datetime format.", invalid |-> "Must be a real datetime."]
    [] cls = "UUIDFormat" -> [format |-> "Must be valid UUID format."]
    [] cls = "URLFormat" -> [format |-> "Must be valid URL format."]
    [] cls = "EmailFormat" -> [format |-> "Must be valid Email format."]

\* a freshly constructed converter: no instance attributes
New(cls) == [cls |-> cls, errors |-> ClassErrors(cls), dict |-> <<>>]

\* self.errors[code].format(**self.__dict__): no template holds a
\* replacement field, so the formatted text is the template
validation_error(slf, code) ==
  IF code \in DOMAIN slf.errors
  THEN [tag |-> "error", code |-> code, text |-> slf.errors[code]]
  ELSE Raise("KeyError")

(***************************************************************************)
(* datetime.date                                                           *)
(***************************************************************************)
IsLeap(y) == y % 4 = 0 /\ (y % 100 # 0 \/ y % 400 = 0)

DaysInMonth(y, m) == IF m = 2 THEN (IF IsLeap(y) THEN 29 ELSE 28)
                     ELSE IF m \in {4, 6, 9, 11} THEN 30 ELSE 31

\* datetime.date(year, month, day) raises ValueError outside these ranges
DateOk(y, m, d) == /\ y >= 1 /\ y <= 9999
                   /\ m >= 1 /\ m <= 12
                   /\ d >= 1 /\ d <= DaysInMonth(y, m)

\* date.isoformat()
DateIso(y, m, d) == ZFill(y, 4) \o <<"-">> \o ZFill(m, 2) \o <<"-">> \o ZFill(d, 2)

(***************************************************************************)
(* DateFormat                                                              *)
(***************************************************************************)
\* DATE_REGEX.match(s): (\d{4})-(\d{1,2})-(\d{1,2})$
DateMatches(s) ==
  {t \in (1..2) \X (1..2) :
     /\ AllIn(s, 1, 4, Digit)
     /\ HasAt(s, 5, <<"-">>)
     /\ AllIn(s, 6, 5 + t[1], Digit)
     /\ HasAt(s, 6 + t[1], <<"-">>)
     /\ AllIn(s, 7 + t[1], 6 + t[1] + t[2], Digit)
     /\ AtEnd(s, 7 + t[1] + t[2])}

\* the groups year, month, day of the match with the lengths t
DateGroups(s, t) ==
  [matched |-> TRUE,
   year |-> Slice(s, 1, 4),
   month |-> Slice(s, 6, 5 + t[1]),
   day |-> Slice(s, 7 + t[1], 6 + t[1] + t[2])]

\* the match object of the candidates C, the greedy one
DateMatch(s, C) == IF C = {} THEN NoMatch ELSE DateGroups(s, Greediest(C))

DATE_REGEX(s) == DateMatch(s, DateMatches(s))

DateFormat_is_native_type(slf, v) == IsInstance(v, "date")

DateFormat_validate(slf, s) ==
  LET match == DATE_REGEX(s)
  IN  IF ~match.matched THEN validation_error(slf, "format")
      ELSE LET y == ToInt(match.year)
               m == ToInt(match.month)
               d == ToInt(match.day)
           IN  IF DateOk(y, m, d)
               THEN Ok([type |-> "date", year |-> y, month |-> m, day |-> d])
               ELSE validation_error(slf, "invalid")

DateFormat_serialize(slf, obj) ==
  IF obj = None THEN Ok(None)
  ELSE IF ~IsInstance(obj, "date") THEN Raise("AssertionError")
  ELSE Ok(Str(DateIso(obj.year, obj.month, obj.day)))

(***************************************************************************)
(* datetime.time                                                           *)
(***************************************************************************)
\* the clock sub-pattern shared by TIME_REGEX and DATETIME_REGEX,
\*   (\d{1,2}):(\d{1,2})(?::(\d{1,2})(?:\.(\d{1,6})\d{0,6})?)?
\* The ways it matches at position o, each the lengths <<hour, minute,
\* second, microsecond, further digits>>; a length of 0 for second or
\* microsecond is the optional group left out
ClockMatches(s, o) ==
  LET H == {h \in 1..2 : AllIn(s, o, o + h - 1, Digit) /\ HasAt(s, o + h, <<":">>)}
      M(h) == {m \in 1..2 : AllIn(s, o + h + 1, o + h + m, Digit)}
      S(p) == {x \in 1..2 : HasAt(s, p, <<":">>) /\ AllIn(s, p + 1, p + x, Digit)}
      F(p) == {f \in (1..6) \X (0..6) :
                 /\ HasAt(s, p, <<".">>)
                 /\ AllIn(s, p + 1, p + f[1], Digit)
                 /\ AllIn(s, p + f[1] + 1, p + f[1] + f[2], Digit)}
      HM == UNION {{<<h, m>> : m \in M(h)} : h \in H}
      HMS == UNION {{t \o <<x>> : x \in S(o + t[1] + 1 + t[2])} : t \in HM}
  IN  {t \o <<0, 0, 0>> : t \in HM}
        \cup {t \o <<0, 0>> : t \in HMS}
        \cup UNION {{t \o f : f \in F(o + t[1] + 1 + t[2] + 1 + t[3])} : t \in HMS}

\* the position after the clock sub-pattern matched at o with counts c
ClockEnd(o, c) ==
  o + c[1] + 1 + c[2] + (IF c[3] = 0 THEN 0 ELSE 1 + c[3])
    + (IF c[4] = 0 THEN 0 ELSE 1 + c[4] + c[5])

\* the groups hour, minute, second, microsecond; None for a group left out
ClockGroups(s, o, c) ==
  LET pm == o + c[1] + 1
      ps == pm + c[2] + 1
      pf == ps + c[3] + 1
  IN  [hour |-> Str(Slice(s, o, o + c[1] - 1)),
       minute |-> Str(Slice(s, pm, pm + c[2] - 1)),
       second |-> IF c[3] = 0 THEN None ELSE Str(Slice(s, ps, ps + c[3] - 1)),
       microsecond |-> IF c[4] = 0 THEN None ELSE Str(Slice(s, pf, pf + c[4] - 1))]

\* ClockFields without the ljust of the microsecond group
ClockFieldsUnpadded(g) ==
  [hour |-> ToInt(g.hour.chars),
   minute |-> ToInt(g.minute.chars),
   second |-> IF g.second = None THEN 0 ELSE ToInt(g.second.chars),
   microsecond |-> IF g.microsecond = None THEN 0 ELSE ToInt(g.microsecond.chars)]

\* groups["microsecond"].ljust(6, "0") when the group is present, then
\* int(v) for every group that is present; datetime.time and
\* datetime.datetime default a missing second or microsecond to 0
ClockFields(g) ==
  [hour |-> ToInt(g.hour.chars),
   minute |-> ToInt(g.minute.chars),
   second |-> IF g.second = None THEN 0 ELSE ToInt(g.second.chars),
   microsecond |-> IF g.microsecond = None THEN 0
                   ELSE ToInt(LJust(g.microsecond.chars, 6, "0"))]

\* datetime.time(hour, minute, second, microsecond) raises ValueError
\* outside these ranges
TimeOk(f) == /\ f.hour >= 0 /\ f.hour <= 23
             /\ f.minute >= 0 /\ f.minute <= 59
             /\ f.second >= 0 /\ f.second <= 59
             /\ f.microsecond >= 0 /\ f.microsecond <= 999999

\* time.isoformat(): the microseconds are rendered only when non-zero
TimeIso(f) ==
  ZFill(f.hour, 2) \o <<":">> \o ZFill(f.minute, 2) \o <<":">> \o ZFill(f.second, 2)
    \o (IF f.microsecond = 0 THEN <<>> ELSE <<".">> \o ZFill(f.microsecond, 6))

(***************************************************************************)
(* TimeFormat                                                              *)
(***************************************************************************)
\* TIME_REGEX.match(s): anchored at the start of s only
TimeGroups(s, c) ==
  [matched |-> TRUE, groups |-> ClockGroups(s, 1, c), stop |-> ClockEnd(1, c)]

\* the match object of the candidates C, the greedy one
TimeMatch(s, C) == IF C = {} THEN NoMatch ELSE TimeGroups(s, Greediest(C))

TIME_REGEX(s) == TimeMatch(s, ClockMatches(s, 1))

TimeFormat_is_native_type(slf, v) == IsInstance(v, "time")

TimeFormat_validate(slf, s) ==
  LET match == TIME_REGEX(s)
  IN  IF ~match.matched THEN validation_error(slf, "format")
      ELSE LET f == ClockFields(match.groups)
           IN  IF TimeOk(f)
               THEN Ok([type |-> "time", hour |-> f.hour, minute |-> f.minute,
                        second |-> f.second, microsecond |-> f.microsecond])
               ELSE validation_error(slf, "invalid")

TimeFormat_serialize(slf, obj) ==
  IF obj = None THEN Ok(None)
  ELSE IF ~IsInstance(obj, "time") THEN Raise("AssertionError")
  ELSE Ok(Str(TimeIso(obj)))

(***************************************************************************)
(* DateTimeFormat                                                          *)
(***************************************************************************)
\* the lengths of the group tzinfo, Z|[+-]\d{2}(?::?\d{2})?, 0 for the
\* group left out
TzLens == {0, 1, 3, 5, 6}

TzAt(s, p, n) ==
  CASE n = 0 -> TRUE
    [] n = 1 -> HasAt(s, p, <<"Z">>)
    [] n = 3 -> AllIn(s, p, p, {"+", "-"}) /\ AllIn(s, p + 1, p + 2, Digit)
    [] n = 5 -> AllIn(s, p, p, {"+", "-"}) /\ AllIn(s, p + 1, p + 4, Digit)
    [] n = 6 -> /\ AllIn(s, p, p, {"+", "-"}) /\ AllIn(s, p + 1, p + 2, Digit)
                /\ HasAt(s, p + 3, <<":">>) /\ AllIn(s, p + 4, p + 5, Digit)

\* DATETIME_REGEX.match(s): the date, T or a space, the clock, tzinfo, $.
\* A candidate is <<month, day, hour, minute, second, microsecond, further
\* digits, tzinfo>>, the length of each group
DateTimeDates(s) ==
  {t \in (1..2) \X (1..2) :
     /\ AllIn(s, 1, 4, Digit)
     /\ HasAt(s, 5, <<"-">>)
     /\ AllIn(s, 6, 5 + t[1], Digit)
     /\ HasAt(s, 6 + t[1], <<"-">>)
     /\ AllIn(s, 7 + t[1], 6 + t[1] + t[2], Digit)
     /\ AllIn(s, 7 + t[1] + t[2], 7 + t[1] + t[2], {"T", " "})}

\* the tzinfo lengths that match at position e and reach $
DateTimeZonesAt(s, e) == {n \in TzLens : TzAt(s, e, n) /\ AtEnd(s, e + n)}

\* the clocks and zones that complete the date match t
DateTimeTails(s, t, o) ==
  UNION {{t \o c \o <<n>> : n \in DateTimeZonesAt(s, ClockEnd(o, c))} :
           c \in ClockMatches(s, o)}

DateTimeMatches(s) ==
  UNION {DateTimeTails(s, t, 8 + t[1] + t[2]) : t \in DateTimeDates(s)}

\* the groups of the match with the lengths t, its clock starting at o and
\* ending at e
DateTimeGroups(s, t, o, e) ==
  [matched |-> TRUE,
   year |-> Slice(s, 1, 4),
   month |-> Slice(s, 6, 5 + t[1]),
   day |-> Slice(s, 7 + t[1], 6 + t[1] + t[2]),
   groups |-> ClockGroups(s, o, SubSeq(t, 3, 7)),
   stop |-> e,
   tzinfo |-> IF t[8] = 0 THEN None ELSE Str(Slice(s, e, e + t[8] - 1))]

DateTimeGroupsAt(s, t, o) == DateTimeGroups(s, t, o, ClockEnd(o, SubSeq(t, 3, 7)))

DateTimeGroupsOf(s, t) == DateTimeGroupsAt(s, t, 8 + t[1] + t[2])

\* the match object of the candidates C, the greedy one
DateTimeMatch(s, C) == IF C = {} THEN NoMatch ELSE DateTimeGroupsOf(s, Greediest(C))

DATETIME_REGEX(s) == DateTimeMatch(s, DateTimeMatches(s))

\* datetime.timezone(delta) raises ValueError unless the offset lies
\* strictly between -24 h and +24 h; the offset is kept in minutes
TimezoneOk(mins) == mins > -1440 /\ mins < 1440

\* TzDelta without the negation of a "-" designator
TzDeltaUnsigned(tz) ==
  (IF Len(tz) > 3 THEN ToInt(Slice(tz, Len(tz) - 1, Len(tz))) ELSE 0)
    + ToInt(Slice(tz, 2, 3)) * 60

\* the offset of a signed designator, in minutes
TzDelta(tz) ==
  LET offset_mins == IF Len(tz) > 3 THEN ToInt(Slice(tz, Len(tz) - 1, Len(tz))) ELSE 0
      offset_hours == ToInt(Slice(tz, 2, 3))
      delta == offset_hours * 60 + offset_mins
  IN  IF tz[1] = "-" THEN -delta ELSE delta

\* "+HH:MM" or "-HH:MM" of a whole-minute utcoffset
OffsetIso(mins) ==
  LET a == IF mins < 0 THEN -mins ELSE mins
  IN  <<(IF mins < 0 THEN "-" ELSE "+")>> \o ZFill(a \div 60, 2) \o <<":">> \o ZFill(a % 60, 2)

\* datetime.isoformat()
DateTimeIso(obj) ==
  DateIso(obj.year, obj.month, obj.day) \o <<"T">> \o TimeIso(obj)
    \o (IF obj.tzinfo = None THEN <<>> ELSE OffsetIso(obj.tzinfo.offset))

DateTimeFormat_is_native_type(slf, v) == IsInstance(v, "datetime")

DateTimeFormat_validate(slf, s) ==
  LET match == DATETIME_REGEX(s)
  IN  IF ~match.matched THEN validation_error(slf, "format")
      ELSE LET tzinfo_str == match.tzinfo
               delta == IF tzinfo_str = None \/ tzinfo_str = Str(<<"Z">>) THEN 0
                        ELSE TzDelta(tzinfo_str.chars)
               tzinfo == IF tzinfo_str = None THEN None
                         ELSE [type |-> "timezone", offset |-> delta]
               y == ToInt(match.year)
               m == ToInt(match.month)
               d == ToInt(match.day)
               f == ClockFields(match.groups)
           IN  IF ~TimezoneOk(delta) THEN Raise("ValueError")
               ELSE IF DateOk(y, m, d) /\ TimeOk(f)
               THEN Ok([type |-> "datetime", year |-> y, month |-> m, day |-> d,
                        hour |-> f.hour, minute |-> f.minute, second |-> f.second,
                        microsecond |-> f.microsecond, tzinfo |-> tzinfo])
               ELSE validation_error(slf, "invalid")

\* DateTimeFormat_serialize without the rewrite of "+00:00"
DateTimeFormat_serialize_iso(slf, obj) ==
  IF obj = None THEN Ok(None)
  ELSE IF ~IsInstance(obj, "datetime") THEN Raise("AssertionError")
  ELSE Ok(Str(DateTimeIso(obj)))

DateTimeFormat_serialize(slf, obj) ==
  IF obj = None THEN Ok(None)
  ELSE IF ~IsInstance(obj, "datetime") THEN Raise("AssertionError")
  ELSE LET v == DateTimeIso(obj)
           n == Len(v)
       IN  IF n >= 6 /\ Slice(v, n - 5, n) = <<"+", "0", "0", ":", "0", "0">>
           THEN Ok(Str(Slice(v, 1, n - 6) \o <<"Z">>))
           ELSE Ok(Str(v))

(***************************************************************************)
(* UUIDFormat                                                              *)
(***************************************************************************)
\* UUID_REGEX.match(s): anchored at the start of s only, lower-case hex
UUID_REGEX(s) ==
  /\ AllIn(s, 1, 8, LowerHex) /\ HasAt(s, 9, <<"-">>)
  /\ AllIn(s, 10, 13, LowerHex) /\ HasAt(s, 14, <<"-">>)
  /\ AllIn(s, 15, 15, {"1", "2", "3", "4", "5"}) /\ AllIn(s, 16, 18, LowerHex)
  /\ HasAt(s, 19, <<"-">>)
  /\ AllIn(s, 20, 20, {"8", "9", "a", "b"}) /\ AllIn(s, 21, 23, LowerHex)
  /\ HasAt(s, 24, <<"-">>)
  /\ AllIn(s, 25, 36, LowerHex)

RECURSIVE Replace(_, _)
\* s.replace(lit, ""): every occurrence of lit, left to right
Replace(s, lit) ==
  IF s = <<>> THEN <<>>
  ELSE IF HasAt(s, 1, lit) THEN Replace(Slice(s, Len(lit) + 1, Len(s)), lit)
  ELSE <<s[1]>> \o Replace(Slice(s, 2, Len(s)), lit)

RECURSIVE LStrip(_, _)
\* s.lstrip(cls)
LStrip(s, cls) == IF s # <<>> /\ s[1] \in cls THEN LStrip(Slice(s, 2, Len(s)), cls) ELSE s

RECURSIVE RStrip(_, _)
\* s.rstrip(cls)
RStrip(s, cls) ==
  IF s # <<>> /\ s[Len(s)] \in cls THEN RStrip(Slice(s, 1, Len(s) - 1), cls) ELSE s

LowerSeq == <<"a", "b", "c", "d", "e", "f", "g", "h", "i", "j", "k", "l", "m",
              "n", "o", "p", "q", "r", "s", "t", "u", "v", "w", "x", "y", "z">>

UpperSeq == <<"A", "B", "C", "D", "E", "F", "G", "H", "I", "J", "K", "L", "M",
              "N", "O", "P", "Q", "R", "S", "T", "U", "V", "W", "X", "Y", "Z">>

\* s.lower()
ToLower(s) ==
  [i \in 1..Len(s) |->
     IF s[i] \in Upper THEN LowerSeq[CHOOSE k \in 1..Len(UpperSeq) : UpperSeq[k] = s[i]]
     ELSE s[i]]

\* uuid.UUID(value): the hex digits of value without "urn:", "uuid:", outer
\* braces and hyphens; ValueError unless 32 hex digits are left.  The value
\* is the 128-bit integer, kept as its 32 lower-case hex digits
UUID(s) ==
  LET hex == Replace(RStrip(LStrip(Replace(Replace(s, <<"u", "r", "n", ":">>),
                                           <<"u", "u", "i", "d", ":">>),
                                   {"{", "}"}), {"{", "}"}), <<"-">>)
  IN  IF Len(hex) # 32 \/ ~AllIn(hex, 1, 32, LowerHex \cup UpperHex)
      THEN Raise("ValueError")
      ELSE Ok([type |-> "UUID", hex |-> ToLower(hex)])

\* str(obj)
PyStr(obj) ==
  CASE obj.type = "NoneType" -> <<"N", "o", "n", "e">>
    [] obj.type = "str" -> obj.chars
    [] obj.type = "UUID" ->
         Slice(obj.hex, 1, 8) \o <<"-">> \o Slice(obj.hex, 9, 12) \o <<"-">>
           \o Slice(obj.hex, 13, 16) \o <<"-">> \o Slice(obj.hex, 17, 20) \o <<"-">>
           \o Slice(obj.hex, 21, 32)

UUIDFormat_is_native_type(slf, v) == IsInstance(v, "UUID")

UUIDFormat_validate(slf, s) ==
  IF ~UUID_REGEX(s) THEN validation_error(slf, "format") ELSE UUID(s)

UUIDFormat_serialize(slf, obj) == Ok(Str(PyStr(obj)))

(***************************************************************************)
(* URLFormat                                                               *)
(***************************************************************************)
TOP_DOMAINS ==
  {<<"c", "o", "m">>, <<"o", "r", "g">>, <<"n", "e", "t">>, <<"u", "s">>,
   <<"c", "o">>, <<"i", "n", "t">>, <<"m", "i", "l">>, <<"e", "d", "u">>,
   <<"g", "o", "v">>, <<"b", "i", "z">>, <<"i", "n", "f", "o">>,
   <<"j", "o", "b", "s">>, <<"m", "o", "b", "i">>, <<"n", "a", "m", "e">>,
   <<"l", "y">>, <<"t", "e", "l">>, <<"k", "i", "t", "c", "h", "e", "n">>,
   <<"e", "m", "a", "i", "l">>, <<"t", "e", "c", "h">>,
   <<"e", "s", "t", "a", "t", "e">>, <<"x", "y", "z">>,
   <<"c", "o", "d", "e", "s">>, <<"b", "a", "r", "g", "a", "i", "n", "s">>,
   <<"b", "i", "d">>, <<"e", "x", "p", "e", "r", "t">>, <<"c", "a">>,
   <<"c", "n">>, <<"f", "r">>, <<"c", "h">>, <<"a", "u">>, <<"i", "n">>,
   <<"d", "e">>, <<"j", "p">>, <<"n", "l">>, <<"u", "k">>, <<"m", "x">>,
   <<"n", "o">>, <<"r", "u">>, <<"b", "r">>, <<"s", "e">>, <<"e", "s">>}

\* the characters [^:\s] excludes
ColonSpace == Space \cup {":"}

\* the characters [^#?\s] excludes
HashQuerySpace == Space \cup {"#", "?"}

\* [\w\-.]
PathChar == Word \cup {"-", "."}

\* no character of s[a..b] lies in the class cls (and the slice lies in s)
NoneIn(s, a, b, cls) == a >= 1 /\ b <= Len(s) /\ \A i \in a..b : s[i] \notin cls

\* \b after the first k characters of s
WordBoundary(s, k) ==
  (k >= 1 /\ s[k] \in Word) # (k < Len(s) /\ s[k + 1] \in Word)

\* the prefix lengths one more (\.\w+) reaches from the prefix lengths P
LabelStep(s, P) ==
  LET D == {p \in P : HasAt(s, p + 1, <<".">>)}
  IN  {j \in 1..Len(s) : \E p \in D : j >= p + 2 /\ AllIn(s, p + 2, j, Word)}

\* the prefix lengths one more (/[\w\-.]+[^#?\s]+) reaches
SegmentStep(s, P) ==
  LET D == {p \in P : HasAt(s, p + 1, <<"/">>)}
  IN  {j \in 1..Len(s) : \E p \in D : \E m \in (p + 2)..(j - 1) :
                            /\ AllIn(s, p + 2, m, PathChar)
                            /\ NoneIn(s, m + 1, j, HashQuerySpace)}

RECURSIVE LabelStar(_, _)
LabelStar(s, P) == LET Q == P \cup LabelStep(s, P)
                   IN  IF Q = P THEN P ELSE LabelStar(s, Q)

RECURSIVE SegmentStar(_, _)
SegmentStar(s, P) == LET Q == P \cup SegmentStep(s, P)
                     IN  IF Q = P THEN P ELSE SegmentStar(s, Q)

\* URL_REGEX.match(s) is not None: some way through the pattern consumes a
\* prefix of s; each stage is the set of prefix lengths consumed so far
URL_REGEX(s) ==
  LET scheme == {0} \cup {Len(l) : l \in {l \in {<<"h", "t", "t", "p", ":", "/", "/">>,
                                       <<"h", "t", "t", "p", "s", ":", "/", "/">>} :
                                       HasAt(s, 1, l)}}
      host == {j \in 1..Len(s) : \E p \in scheme : p < j /\ NoneIn(s, p + 1, j, ColonSpace)}
      labels == LabelStar(s, host)
      dots == {p \in labels : HasAt(s, p + 1, <<".">>)}
      tld == {p + 1 + Len(d) : <<p, d>> \in {x \in dots \X TOP_DOMAINS :
                                               HasAt(s, x[1] + 2, x[2])}}
      path == SegmentStar(s, tld)
      slash == path \cup {p + 1 : p \in {p \in path : HasAt(s, p + 1, <<"/">>)}}
  IN  /\ WordBoundary(s, 0)
      /\ \E e \in slash : WordBoundary(s, e)

\* schemes of urllib.parse.uses_params and urllib.parse.uses_netloc
uses_params ==
  {<<>>, <<"f", "t", "p">>, <<"h", "d", "l">>,
   <<"p", "r", "o", "s", "p", "e", "r", "o">>, <<"h", "t", "t", "p">>,
   <<"i", "m", "a", "p">>, <<"h", "t", "t", "p", "s">>,
   <<"s", "h", "t", "t", "p">>, <<"r", "t", "s", "p">>,
   <<"r", "t", "s", "p", "s">>, <<"r", "t", "s", "p", "u">>,
   <<"s", "i", "p">>, <<"s", "i", "p", "s">>, <<"m", "m", "s">>,
   <<"s", "f", "t", "p">>, <<"t", "e", "l">>}

uses_netloc ==
  {<<>>, <<"f", "t", "p">>, <<"h", "t", "t", "p">>,
   <<"g", "o", "p", "h", "e", "r">>, <<"n", "n", "t", "p">>,
   <<"t", "e", "l", "n", "e", "t">>, <<"i", "m", "a", "p">>,
   <<"w", "a", "i", "s">>, <<"f", "i", "l", "e">>, <<"m", "m", "s">>,
   <<"h", "t", "t", "p", "s">>, <<"s", "h", "t", "t", "p">>,
   <<"s", "n", "e", "w", "s">>, <<"p", "r", "o", "s", "p", "e", "r", "o">>,
   <<"r", "t", "s", "p">>, <<"r", "t", "s", "p", "s">>,
   <<"r", "t", "s", "p", "u">>, <<"r", "s", "y", "n", "c">>,
   <<"s", "v", "n">>, <<"s", "v", "n", "+", "s", "s", "h">>,
   <<"s", "f", "t", "p">>, <<"n", "f", "s">>, <<"g", "i", "t">>,
   <<"g", "i", "t", "+", "s", "s", "h">>, <<"w", "s">>, <<"w", "s", "s">>}

\* the characters urllib.parse allows in a scheme
scheme_chars == Lower \cup Upper \cup Digit \cup {"+", "-", "."}

\* the characters urlsplit strips from the left of a URL that occur here
C0_CONTROL_OR_SPACE == {" ", "\t", "\n", "\r"}

\* s.find(c) + 1 from position a on: the first position of c, 0 if none
Find(s, c, a) == IF \E i \in a..Len(s) : s[i] = c
                 THEN CHOOSE i \in a..Len(s) : s[i] = c /\ \A j \in a..(i - 1) : s[j] # c
                 ELSE 0

\* s.rfind(c) + 1
RFind(s, c) == IF \E i \in 1..Len(s) : s[i] = c
               THEN CHOOSE i \in 1..Len(s) : s[i] = c /\ \A j \in (i + 1)..Len(s) : s[j] # c
               ELSE 0

Contains(s, c) == \E i \in 1..Len(s) : s[i] = c

\* the scheme of url and what follows its ":"; no scheme when the text
\* before the first ":" is not a letter followed by scheme_chars
splitscheme(url) ==
  LET i == Find(url, ":", 1)
  IN  IF i > 1 /\ url[1] \in Lower \cup Upper
         /\ \A k \in 1..(i - 1) : url[k] \in scheme_chars
      THEN <<ToLower(Slice(url, 1, i - 1)), Slice(url, i + 1, Len(url))>>
      ELSE <<<<>>, url>>

\* _splitnetloc(url, 2): after a leading "//" the netloc runs to the first
\* of "/", "?" and "#"
splitnetloc(url) ==
  LET delims == {k \in 3..Len(url) : url[k] \in {"/", "?", "#"}}
      delim == IF delims = {} THEN Len(url) + 1
               ELSE CHOOSE k \in delims : \A j \in delims : k <= j
  IN  IF HasAt(url, 1, <<"/", "/">>)
      THEN <<Slice(url, 3, delim - 1), Slice(url, delim, Len(url))>>
      ELSE <<<<>>, url>>

\* url.split(ch, 1) padded to two parts
Split1(url, ch) ==
  LET i == Find(url, ch, 1)
  IN  IF i > 0 THEN <<Slice(url, 1, i - 1), Slice(url, i + 1, Len(url))>>
      ELSE <<url, <<>>>>

\* _splitparams(url): the parameters follow the first ";" of the last
\* path segment
splitparams(url) ==
  LET i == IF Contains(url, "/") THEN Find(url, ";", RFind(url, "/"))
           ELSE Find(url, ";", 1)
  IN  IF i > 0 THEN <<Slice(url, 1, i - 1), Slice(url, i + 1, Len(url))>>
      ELSE <<url, <<>>>>

\* urllib.parse.urlsplit(url0): leading C0 controls and spaces are stripped
\* and every tab, CR and LF removed before the URL is split
urlsplit(url0) ==
  LET s == splitscheme(Replace(Replace(Replace(
             LStrip(url0, C0_CONTROL_OR_SPACE), <<"\t">>), <<"\r">>), <<"\n">>))
      n == splitnetloc(s[2])
      f == Split1(n[2], "#")
      q == Split1(f[1], "?")
  IN  [scheme |-> s[1], netloc |-> n[1], path |-> q[1], query |-> q[2],
       fragment |-> f[2]]

\* the ParseResult of a SplitResult r. "Invalid IPv6 URL": an unpaired
\* bracket, or a bracketed host that is no IP literal
ParseResult(r) ==
  LET p == IF r.scheme \in uses_params /\ Contains(r.path, ";")
           THEN splitparams(r.path) ELSE <<r.path, <<>>>>
  IN  IF Contains(r.netloc, "[") \/ Contains(r.netloc, "]")
      THEN Raise("ValueError")
      ELSE Ok([type |-> "ParseResult", scheme |-> r.scheme, netloc |-> r.netloc,
               path |-> p[1], params |-> p[2], query |-> r.query,
               fragment |-> r.fragment])

\* urllib.parse.urlparse(url0)
urlparse(url0) == ParseResult(urlsplit(url0))

\* ParseResult.geturl(): urllib.parse.urlunparse(obj)
geturl(obj) ==
  LET u1 == IF obj.params # <<>> THEN obj.path \o <<";">> \o obj.params ELSE obj.path
      u2 == IF obj.netloc # <<>>
               \/ (obj.scheme # <<>> /\ obj.scheme \in uses_netloc
                   /\ ~HasAt(u1, 1, <<"/", "/">>))
            THEN <<"/", "/">> \o obj.netloc
                   \o (IF u1 # <<>> /\ u1[1] # "/" THEN <<"/">> ELSE <<>>) \o u1
            ELSE u1
      u3 == IF obj.scheme # <<>> THEN obj.scheme \o <<":">> \o u2 ELSE u2
      u4 == IF obj.query # <<>> THEN u3 \o <<"?">> \o obj.query ELSE u3
  IN  IF obj.fragment # <<>> THEN u4 \o <<"#">> \o obj.fragment ELSE u4

URLFormat_is_native_type(slf, v) == IsInstance(v, "ParseResult")

\* URLFormat_validate without the "http://" put before a bare host
URLFormat_validate_bare(slf, s) ==
  IF ~URL_REGEX(s) THEN validation_error(slf, "format") ELSE urlparse(s)

URLFormat_validate(slf, s) ==
  IF ~URL_REGEX(s) THEN validation_error(slf, "format")
  ELSE IF ~HasAt(s, 1, <<"h", "t", "t", "p">>)
  THEN urlparse(<<"h", "t", "t", "p", ":", "/", "/">> \o s)
  ELSE urlparse(s)

URLFormat_serialize(slf, obj) ==
  IF obj = None THEN Ok(None)
  ELSE IF ~IsInstance(obj, "ParseResult") THEN Raise("AssertionError")
  ELSE Ok(Str(geturl(obj)))

(***************************************************************************)
(* EmailFormat                                                             *)
(***************************************************************************)
\* [a-zA-Z0-9_.+-]
EmailLocal == Lower \cup Upper \cup Digit \cup {"_", ".", "+", "-"}

\* [a-zA-Z0-9-]
EmailLabel == Lower \cup Upper \cup Digit \cup {"-"}

\* [a-zA-Z0-9-.]
EmailRest == Lower \cup Upper \cup Digit \cup {"-", "."}

\* EMAIL_REGEX.match(s) is not None
EMAIL_REGEX(s) ==
  \E a \in 2..Len(s) : \E d \in (a + 2)..Len(s) : \E e \in (d + 2)..(Len(s) + 1) :
     /\ AllIn(s, 1, a - 1, EmailLocal)
     /\ HasAt(s, a, <<"@">>)
     /\ AllIn(s, a + 1, d - 1, EmailLabel)
     /\ HasAt(s, d, <<".">>)
     /\ AllIn(s, d + 1, e - 1, EmailRest)
     /\ AtEnd(s, e)

EmailFormat_is_native_type(slf, v) == IsInstance(v, "ParseResult")

EmailFormat_validate(slf, s) ==
  IF ~EMAIL_REGEX(s) THEN validation_error(slf, "format") ELSE Ok(Str(s))

EmailFormat_serialize(slf, obj) == Ok(obj)

(***************************************************************************)
(* The strings the caller passes to validate.                              *)
(***************************************************************************)
\* n fractional digits: 1, 2, 3, ... modulo 10
FracDigits(n) == [i \in 1..n |-> DigitSeq[(i % 10) + 1]]

Fractions == {<<>>, <<".", "5">>} \cup {<<".">> \o FracDigits(n) : n \in 0..MaxFrac}

DateInputs ==
  {y \o <<"-">> \o m \o <<"-">> \o d \o e :
     y \in {<<"2", "0", "2", "1">>, <<"2", "0", "2", "0">>, <<"1", "9", "0", "0">>,
      <<"0", "0", "0", "0">>},
     m \in {<<"2">>, <<"0", "2">>, <<"4">>, <<"1", "3">>, <<"0">>},
     d \in {<<"1">>, <<"2", "9">>, <<"3", "0">>, <<"3", "1">>, <<"0", "0">>},
     e \in {<<>>, <<"\n">>, <<"x">>}}
  \cup {<<"n", "o", "t", "-", "a", "-", "d", "a", "t", "e">>,
      <<"2", "1", "-", "0", "2", "-", "0", "3">>,
      <<"2", "0", "2", "1", "-", "0", "2">>,
      <<"2", "0", "2", "1", "-", "1", "2", "3", "-", "0", "1">>,
      <<"2", "0", "2", "1", "/", "0", "2", "/", "0", "3">>, <<>>,
      <<"0", "0", "0", "1", "-", "1", "-", "1">>}

TimeInputs ==
  {h \o <<":">> \o m \o e : h \in {<<"1", "4">>, <<"2", "4">>, <<"1">>}, m \in {<<"3", "0">>, <<"6", "0">>}, e \in {<<>>, <<"x">>}}
  \cup {h \o <<":">> \o m \o <<":">> \o sec \o f \o e :
          h \in {<<"1", "4">>, <<"2", "4">>, <<"1">>},
          m \in {<<"3", "0">>, <<"6", "0">>},
          sec \in {<<"0", "0">>, <<"6", "0">>, <<"7">>},
          f \in Fractions,
          e \in {<<>>, <<"x">>}}
  \cup {<<>>, <<"1", "4">>, <<"1", "4", "3", "0">>, <<":", "3", "0">>,
      <<"x", "1", "4", ":", "3", "0">>, <<"1", "4", ":">>,
      <<"1", "4", ":", "5">>, <<"0", "0", ":", "0", "0", "x">>,
      <<"1", "4", ":", "3", "0", ".">>}

DateTimeZones ==
  {<<>>, <<"Z">>, <<"+", "0", "5", ":", "3", "0">>,
      <<"+", "0", "5", "3", "0">>, <<"-", "0", "8">>,
      <<"+", "2", "4", ":", "0", "0">>, <<"+", "2", "3", ":", "9", "9">>,
      <<"+", "0", "0", ":", "9", "9">>, <<"+", "0", "0", ":", "0", "0">>,
      <<"-", "0", "0", ":", "0", "0">>, <<"+", "0", "0">>,
      <<"-", "0", "0", "0", "0">>, <<"-", "2", "3", ":", "5", "9">>,
      <<"+", "5">>, <<"\n">>}

DateTimeInputs ==
  {d \o c \o z : d \in {<<"2", "0", "2", "1", "-", "0", "6", "-", "0", "1", "T">>,
      <<"2", "0", "2", "0", "-", "2", "-", "2", "9", " ">>,
      <<"2", "0", "2", "1", "-", "0", "2", "-", "3", "0", "T">>,
      <<"2", "0", "2", "1", "-", "0", "6", "-", "0", "1", "t">>},
                c \in {<<"1", "2", ":", "0", "0">>, <<"2", "3", ":", "5", "9", ":", "5", "9">>,
      <<"2", "4", ":", "0", "0", ":", "0", "0">>, <<"9", ":", "5", ":", "7">>},
                z \in DateTimeZones}
  \cup {d \o c \o f \o z : d \in {<<"2", "0", "2", "1", "-", "0", "6", "-", "0", "1", "T">>,
      <<"2", "0", "2", "0", "-", "2", "-", "2", "9", " ">>},
                          c \in {<<"1", "2", ":", "0", "0", ":", "0", "0">>,
      <<"1", "2", ":", "0", "0", ":", "6", "0">>},
                          f \in Fractions,
                          z \in DateTimeZones}
  \cup {<<>>, <<"2", "0", "2", "1", "-", "0", "6", "-", "0", "1">>,
      <<"1", "2", ":", "0", "0", ":", "0", "0">>,
      <<"2", "0", "2", "1", "-", "0", "6", "-", "0", "1", "T", "1", "2">>,
      <<"2", "0", "2", "1", "-", "0", "6", "-", "0", "1", "T", "1", "2", ":", "0", "0", ".", "5">>,
      <<"n", "o", "t", "-", "a", "-", "d", "a", "t", "e", "t", "i", "m", "e">>,
      <<"2", "0", "2", "1", "-", "1", "3", "-", "0", "1", "T", "1", "2", ":", "0", "0">>,
      <<"0", "0", "0", "0", "-", "0", "1", "-", "0", "1", " ", "1", "2", ":", "0", "0">>,
      <<"2", "0", "2", "1", "-", "0", "6", "-", "0", "1", "T", "1", "2", ":", "6", "0">>,
      <<"2", "0", "2", "1", "-", "0", "6", "-", "0", "1", "T", "1", "2", ":", "0", "0", ":", "0", "0", "z">>,
      <<"2", "0", "2", "1", "-", "0", "6", "-", "0", "1", "T", "1", "2", ":", "0", "0", ":", "0", "0", "Z", "\n">>,
      <<"2", "0", "2", "1", "-", "0", "6", "-", "0", "1", "T", "1", "2", ":", "0", "0", "-", "2", "4", ":", "0", "0">>}

UUIDInputs ==
  {u \o e :
     u \in {<<"5", "5", "0", "e", "8", "4", "0", "0", "-", "e", "2", "9", "b", "-", "4", "1", "d", "4", "-", "a", "7", "1", "6", "-", "4", "4", "6", "6", "5", "5", "4", "4", "0", "0", "0", "0">>,
      <<"5", "5", "0", "e", "8", "4", "0", "0", "-", "e", "2", "9", "b", "-", "6", "1", "d", "4", "-", "a", "7", "1", "6", "-", "4", "4", "6", "6", "5", "5", "4", "4", "0", "0", "0", "0">>,
      <<"5", "5", "0", "e", "8", "4", "0", "0", "-", "e", "2", "9", "b", "-", "4", "1", "d", "4", "-", "c", "7", "1", "6", "-", "4", "4", "6", "6", "5", "5", "4", "4", "0", "0", "0", "0">>,
      <<"5", "5", "0", "E", "8", "4", "0", "0", "-", "E", "2", "9", "B", "-", "4", "1", "D", "4", "-", "A", "7", "1", "6", "-", "4", "4", "6", "6", "5", "5", "4", "4", "0", "0", "0", "0">>,
      <<"5", "5", "0", "e", "8", "4", "0", "0", "-", "e", "2", "9", "b", "-", "5", "1", "d", "4", "-", "b", "7", "1", "6", "-", "4", "4", "6", "6", "5", "5", "4", "4", "0", "0", "0", "A">>,
      <<"5", "5", "0", "e", "8", "4", "0", "0", "e", "2", "9", "b", "4", "1", "d", "4", "a", "7", "1", "6", "4", "4", "6", "6", "5", "5", "4", "4", "0", "0", "0", "0">>,
      <<"1", "2", "3", "e", "4", "5", "6", "7", "-", "e", "8", "9", "b", "-", "1", "2", "d", "3", "-", "a", "4", "5", "6", "-", "4", "2", "6", "6", "1", "4", "1", "7", "4", "0", "0">>,
      <<"1", "2", "3", "e", "4", "5", "6", "7", "-", "e", "8", "9", "b", "-", "1", "2", "d", "3", "-", "a", "4", "5", "6", "-", "4", "2", "6", "6", "1", "4", "1", "7", "4", "0", "0", "0">>,
      <<"{", "5", "5", "0", "e", "8", "4", "0", "0", "-", "e", "2", "9", "b", "-", "4", "1", "d", "4", "-", "a", "7", "1", "6", "-", "4", "4", "6", "6", "5", "5", "4", "4", "0", "0", "0", "0">>,
      <<>>},
     e \in {<<>>, <<"-">>, <<"}">>, <<"x">>, <<"a", "b">>, <<"u", "r", "n", ":">>,
      <<"u", "u", "i", "d", ":">>, <<"\n">>, <<"-", "}">>, <<"}", "-">>,
      <<"0">>, <<"-", "-">>, <<"{", "}">>}}

URLInputs ==
  {sch \o h \o d \o p \o e :
     sch \in {<<>>, <<"h", "t", "t", "p", ":", "/", "/">>,
      <<"h", "t", "t", "p", "s", ":", "/", "/">>, <<"h", "t", "t", "p">>},
     h \in {<<"e", "x", "a", "m", "p", "l", "e">>, <<"a", ".", "b">>, <<"a", "[">>},
     d \in {<<".", "c", "o", "m">>, <<".", "o", "r", "g">>, <<".", "z", "z">>,
      <<".", "c", "o">>},
     p \in {<<>>, <<"/", "x", "/", "y">>, <<"/", "p", ";", "q">>},
     e \in {<<>>, <<"?", "q", "=", "1", "#", "f">>,
      <<" ", "a", "n", "d", " ", "m", "o", "r", "e">>, <<"\t", "x">>,
      <<":", "8", "0">>}}
  \cup {<<>>, <<"n", "o", "t", " ", "a", " ", "u", "r", "l", "!", "!">>,
      <<" ", "e", "x", "a", "m", "p", "l", "e", ".", "c", "o", "m">>,
      <<"-", "a", ".", "c", "o", "m">>, <<"h", "t", "t", "p", ":", "/", "/">>,
      <<".", "c", "o", "m">>,
      <<"f", "t", "p", ":", "/", "/", "e", "x", "a", "m", "p", "l", "e", ".", "c", "o", "m">>,
      <<"x", " ", "y", ".", "c", "o", "m">>,
      <<"A", "_", "1", ".", "c", "o", "m", "/", "a", " ", "b">>,
      <<"e", "x", "a", "m", "p", "l", "e", ".", "c", "o", "m", "!", "!">>,
      <<"e", "x", "a", "m", "p", "l", "e", ".", "c", "o", "m", "?">>,
      <<"e", "x", "a", "m", "p", "l", "e", ".", "c", "o", "m", "/", "x", "/">>,
      <<"e", "x", "a", "m", "p", "l", "e", ".", "c", "o", "m", "/">>,
      <<"h", "t", "t", "p", "s", ":", "/", "/", "a", ".", "b", ".", "o", "r", "g", "/", "x", "/", "y", "/">>,
      <<"e", "x", "a", "m", "p", "l", "e", ".", "c", "o", "m", "#", "f">>}

EmailInputs ==
  {l \o <<"@">> \o d \o e :
     l \in {<<"a">>, <<"A", "+", "b", "_", "c", ".", "d", "-", "1">>,
      <<"a", " ", "b">>, <<>>, <<"a", "@">>},
     d \in {<<"b", ".", "c", "o", "m">>, <<"b">>,
      <<"x", "-", "y", ".", "c", "o", ".", "u", "k">>, <<".", "c", "o", "m">>,
      <<"b", ".", ".", "c", "o", "m">>, <<"b", ".", "c", "_", "m">>,
      <<"B", "9", ".", "c">>},
     e \in {<<>>, <<"\n">>, <<" ">>, <<"\n", "\n">>}}
  \cup {<<>>, <<"@">>, <<"a", ".", "b", ".", "c", "o", "m">>}

Inputs(cls) ==
  CASE cls = "DateFormat" -> DateInputs
    [] cls = "TimeFormat" -> TimeInputs
    [] cls = "DateTimeFormat" -> DateTimeInputs
    [] cls = "UUIDFormat" -> UUIDInputs
    [] cls = "URLFormat" -> URLInputs
    [] cls = "EmailFormat" -> EmailInputs

(***************************************************************************)
(* The converter and its caller.                                           *)
(*                                                                         *)
(* self is the converter instance; value is the string the caller holds.   *)
(* The caller validates value (outcome), asks whether the returned value   *)
(* is native (isnative), serializes it (text) and validates the            *)
(* serialized text (again); before validating it may serialize None.       *)
(***************************************************************************)
Validate(slf, s) ==
  CASE slf.cls = "DateFormat" -> DateFormat_validate(slf, s)
    [] slf.cls = "TimeFormat" -> TimeFormat_validate(slf, s)
    [] slf.cls = "DateTimeFormat" -> DateTimeFormat_validate(slf, s)
    [] slf.cls = "UUIDFormat" -> UUIDFormat_validate(slf, s)
    [] slf.cls = "URLFormat" -> URLFormat_validate(slf, s)
    [] slf.cls = "EmailFormat" -> EmailFormat_validate(slf, s)

Serialize(slf, obj) ==
  CASE slf.cls = "DateFormat" -> DateFormat_serialize(slf, obj)
    [] slf.cls = "TimeFormat" -> TimeFormat_serialize(slf, obj)
    [] slf.cls = "DateTimeFormat" -> DateTimeFormat_serialize(slf, obj)
    [] slf.cls = "UUIDFormat" -> UUIDFormat_serialize(slf, obj)
    [] slf.cls = "URLFormat" -> URLFormat_serialize(slf, obj)
    [] slf.cls = "EmailFormat" -> EmailFormat_serialize(slf, obj)

IsNativeType(slf, v) ==
  CASE slf.cls = "DateFormat" -> DateFormat_is_native_type(slf, v)
    [] slf.cls = "TimeFormat" -> TimeFormat_is_native_type(slf, v)
    [] slf.cls = "DateTimeFormat" -> DateTimeFormat_is_native_type(slf, v)
    [] slf.cls = "UUIDFormat" -> UUIDFormat_is_native_type(slf, v)
    [] slf.cls = "URLFormat" -> URLFormat_is_native_type(slf, v)
    [] slf.cls = "EmailFormat" -> EmailFormat_is_native_type(slf, v)

Init ==
  /\ self \in {New(cls) : cls \in Formats}
  /\ value \in Inputs(self.cls)
  /\ pc = "new"
  /\ outcome = Unset
  /\ isnative = Unset
  /\ text = Unset
  /\ again = Unset

\* a call of validate: of value, or of the text serialize returned
CallValidate(cls) ==
  /\ self.cls = cls
  /\ \/ /\ pc # "serialized"
        /\ outcome' = Validate(self, value)
        /\ pc' = "validated"
        /\ isnative' = Unset
        /\ text' = Unset
        /\ again' = Unset
     \/ /\ pc = "serialized"
        /\ text.tag = "ok"
        /\ text.val.type = "str"
        /\ again' = Validate(self, text.val.chars)
        /\ pc' = "revalidated"
        /\ UNCHANGED <<outcome, isnative, text>>
  /\ UNCHANGED <<self, value>>

\* a call of is_native_type on the value validate returned
CallIsNativeType(cls) ==
  /\ self.cls = cls
  /\ pc = "validated"
  /\ outcome.tag = "ok"
  /\ isnative' = Ok(IsNativeType(self, outcome.val))
  /\ pc' = "checked"
  /\ UNCHANGED <<self, value, outcome, text, again>>

\* a call of serialize: on the value validate returned, or on None
CallSerialize(cls) ==
  /\ self.cls = cls
  /\ \/ /\ pc \in {"validated", "checked"}
        /\ outcome.tag = "ok"
        /\ text' = Serialize(self, outcome.val)
        /\ pc' = "serialized"
     \/ /\ pc = "new"
        /\ text' = Serialize(self, None)
        /\ pc' = "serialized_none"
  /\ UNCHANGED <<self, value, outcome, isnative, again>>

\* CallValidate with a validation_error that takes the template out of
\* self.errors when it raises
CallValidateConsuming(cls) ==
  /\ self.cls = cls
  /\ pc # "serialized"
  /\ outcome' = Validate(self, value)
  /\ pc' = "validated"
  /\ isnative' = Unset
  /\ text' = Unset
  /\ again' = Unset
  /\ self' = IF outcome'.tag = "error"
             THEN [self EXCEPT !.errors = [c \in DOMAIN self.errors \ {outcome'.code}
                                            |-> self.errors[c]]]
             ELSE self
  /\ UNCHANGED value

DateValidateConsuming == CallValidateConsuming("DateFormat")

DateValidate == CallValidate("DateFormat")

DateIsNativeType == CallIsNativeType("DateFormat")

DateSerialize == CallSerialize("DateFormat")

TimeValidate == CallValidate("TimeFormat")

TimeIsNativeType == CallIsNativeType("TimeFormat")

TimeSerialize == CallSerialize("TimeFormat")

DateTimeValidate == CallValidate("DateTimeFormat")

DateTimeIsNativeType == CallIsNativeType("DateTimeFormat")

DateTimeSerialize == CallSerialize("DateTimeFormat")

UUIDValidate == CallValidate("UUIDFormat")

UUIDIsNativeType == CallIsNativeType("UUIDFormat")

UUIDSerialize == CallSerialize("UUIDFormat")

URLValidate == CallValidate("URLFormat")

URLIsNativeType == CallIsNativeType("URLFormat")

URLSerialize == CallSerialize("URLFormat")

EmailValidate == CallValidate("EmailFormat")

EmailIsNativeType == CallIsNativeType("EmailFormat")

EmailSerialize == CallSerialize("EmailFormat")

Next ==
  \/ DateValidate \/ DateIsNativeType \/ DateSerialize
  \/ TimeValidate \/ TimeIsNativeType \/ TimeSerialize
  \/ DateTimeValidate \/ DateTimeIsNativeType \/ DateTimeSerialize
  \/ UUIDValidate \/ UUIDIsNativeType \/ UUIDSerialize
  \/ URLValidate \/ URLIsNativeType \/ URLSerialize
  \/ EmailValidate \/ EmailIsNativeType \/ EmailSerialize

Spec == Init /\ [][Next]_vars

(***************************************************************************)
(* Properties.                                                             *)
(***************************************************************************)
\* validate has been called on value
Validated == pc \in {"validated", "checked", "serialized", "revalidated"}

Accepted == Validated /\ outcome.tag = "ok"

StartsWith(s, lit) == HasAt(s, 1, lit)

EndsWith(s, lit) == Len(s) >= Len(lit) /\ HasAt(s, Len(s) - Len(lit) + 1, lit)

\* C1: round trip.  For every string validate accepts, serialize returns a
\* string that validate accepts again, and the value it parses to equals the
\* value parsed first.
C1_RoundTrip ==
  /\ (pc = "serialized" => text.tag = "ok" /\ text.val.type = "str")
  /\ (pc = "revalidated" => again.tag = "ok" /\ again.val = outcome.val)

\* C2: serialize(None) returns None for every converter.
C2_SerializeNone == pc = "serialized_none" => text = Ok(None)

\* C3: is_native_type is true of every value validate returns.
C3_NativeOfValidated == pc = "checked" => isnative = Ok(TRUE)

\* the string matches the grammar of a calendar or clock converter
MatchesGrammar(cls, s) ==
  CASE cls = "DateFormat" -> DATE_REGEX(s).matched
    [] cls = "TimeFormat" -> TIME_REGEX(s).matched
    [] cls = "DateTimeFormat" -> DATETIME_REGEX(s).matched

\* C4: validate of DateFormat, TimeFormat and DateTimeFormat returns the
\* value, or raises ValidationError "format" for a string outside the
\* grammar, or raises ValidationError "invalid" for a string of the grammar;
\* nothing else escapes.
C4_ThreeOutcomes ==
  Validated /\ self.cls \in {"DateFormat", "TimeFormat", "DateTimeFormat"}
    => \/ outcome.tag = "ok" /\ MatchesGrammar(self.cls, value)
       \/ outcome.tag = "error" /\ outcome.code = "format"
            /\ ~MatchesGrammar(self.cls, value)
       \/ outcome.tag = "error" /\ outcome.code = "invalid"
            /\ MatchesGrammar(self.cls, value)

\* the 8-4-4-4-12 layout, hex digits of either case, version 1-5, variant
\* 8, 9, a or b
InUUIDLayout(s) ==
  LET Hex == LowerHex \cup UpperHex
  IN  /\ Len(s) = 36
      /\ \A i \in {9, 14, 19, 24} : s[i] = "-"
      /\ \A i \in (1..36) \ {9, 14, 19, 24} : s[i] \in Hex
      /\ s[15] \in {"1", "2", "3", "4", "5"}
      /\ s[20] \in {"8", "9", "a", "b", "A", "B"}

\* C5: UUIDFormat.validate returns the UUID for exactly the strings in the
\* layout and raises ValidationError "format" for every other string.
C5_UUIDLayout ==
  Validated /\ self.cls = "UUIDFormat"
    => IF InUUIDLayout(value)
       THEN outcome = Ok([type |-> "UUID", hex |-> ToLower(Replace(value, <<"-">>))])
       ELSE outcome.tag = "error" /\ outcome.code = "format"

HTTP == <<"h", "t", "t", "p">>

HTTP_PREFIX == <<"h", "t", "t", "p", ":", "/", "/">>

\* C6: URLFormat.  An accepted string that does not start with "http" is
\* parsed as "http://" + s and serializes to a string that begins with
\* "http://"; a string the grammar does not match fails with "format".
C6_HttpPrefix ==
  self.cls = "URLFormat" =>
    /\ (Validated /\ ~URL_REGEX(value)
          => outcome.tag = "error" /\ outcome.code = "format")
    /\ (Accepted /\ ~StartsWith(value, HTTP)
          => outcome = urlparse(HTTP_PREFIX \o value))
    /\ (pc = "serialized" /\ ~StartsWith(value, HTTP)
          => text.tag = "ok" /\ text.val.type = "str"
             /\ StartsWith(text.val.chars, HTTP_PREFIX))

C6_Witness ==
  /\ self.cls = "URLFormat"
  /\ pc = "serialized"
  /\ value = <<"e", "x", "a", "m", "p", "l", "e", ".", "c", "o", "m">>
  /\ text = Ok(Str(HTTP_PREFIX \o value))

DigitRun(s, p) ==
  IF p > Len(s) \/ s[p] \notin Digit THEN 0
  ELSE CHOOSE n \in 1..(Len(s) - p + 1) :
         /\ AllIn(s, p, p + n - 1, Digit)
         /\ (p + n > Len(s) \/ s[p + n] \notin Digit)

\* the first "." of value, the digits that follow it, and value without both
FracDot == Find(value, ".", 1)

FracLen == DigitRun(value, FracDot + 1)

FracBase == Slice(value, 1, FracDot - 1) \o Slice(value, FracDot + FracLen + 1, Len(value))

\* the clock sub-pattern of s ends just before position p, seconds included
SecondsEndAt(cls, s, p) ==
  LET m == IF cls = "TimeFormat" THEN TIME_REGEX(s) ELSE DATETIME_REGEX(s)
  IN  m.matched /\ m.groups.second # None /\ m.stop = p

\* value is an input the converter accepts without its fraction, and the
\* fraction, "." and FracLen >= 1 digits, follows its seconds field
FracCase ==
  /\ Validated
  /\ self.cls \in {"TimeFormat", "DateTimeFormat"}
  /\ FracDot > 0
  /\ FracLen >= 1
  /\ Validate(self, FracBase).tag = "ok"
  /\ SecondsEndAt(self.cls, FracBase, FracDot)

\* the first min(n, 6) fractional digits, zeros added on the right up to 6
FracMicroseconds ==
  ToInt(LJust(Slice(value, FracDot + 1, FracDot + (IF FracLen < 6 THEN FracLen ELSE 6)),
              6, "0"))

\* the value of FracBase with the microseconds of the fraction
FracExpected ==
  Ok([Validate(self, FracBase).val EXCEPT !.microsecond = FracMicroseconds])

\* C8 as claimed: a fraction of any number n >= 1 of digits is accepted by
\* TimeFormat and DateTimeFormat, and the microseconds are the first
\* min(n, 6) digits padded on the right to 6 digits.
C8_AnyFractionAccepted == FracCase => outcome = FracExpected

\* C8: TimeFormat accepts a fraction of any number n >= 1 of digits and
\* DateTimeFormat one of 1 to 12 digits, the microseconds being the first
\* min(n, 6) digits padded on the right to 6 digits; DateTimeFormat rejects
\* a fraction of 13 or more digits with ValidationError "format".
C8_FractionTruncated ==
  FracCase =>
    IF self.cls = "DateTimeFormat" /\ FracLen > 12
    THEN outcome.tag = "error" /\ outcome.code = "format"
    ELSE outcome = FracExpected

\* a DateTimeFormat input with 12 fractional digits, 6 of them dropped
C8_Witness ==
  /\ FracCase
  /\ self.cls = "DateTimeFormat"
  /\ FracLen = 12
  /\ outcome.tag = "ok"
  /\ outcome.val.microsecond = 123456

\* value without the newline $ lets through
ZoneBody == IF EndsWith(value, <<"\n">>) THEN Slice(value, 1, Len(value) - 1) ELSE value

\* the length of the timezone designator that ends ZoneBody, 0 for none
ZoneLen ==
  LET b == ZoneBody
      n == Len(b)
  IN  IF EndsWith(b, <<"Z">>) THEN 1
      ELSE IF n >= 6 /\ b[n - 5] \in {"+", "-"} /\ AllIn(b, n - 4, n - 3, Digit)
              /\ b[n - 2] = ":" /\ AllIn(b, n - 1, n, Digit) THEN 6
      ELSE IF n >= 5 /\ b[n - 4] \in {"+", "-"} /\ AllIn(b, n - 3, n, Digit) THEN 5
      ELSE IF n >= 3 /\ b[n - 2] \in {"+", "-"} /\ AllIn(b, n - 1, n, Digit) THEN 3
      ELSE 0

\* the tzinfo the designator stands for
ZoneExpected ==
  LET b == ZoneBody
      n == Len(b)
      z == Slice(b, n - ZoneLen + 1, n)
      hours == ToInt(Slice(z, 2, 3))
      minutes == IF ZoneLen > 3 THEN ToInt(Slice(z, ZoneLen - 1, ZoneLen)) ELSE 0
  IN  CASE ZoneLen = 0 -> None
        [] ZoneLen = 1 -> [type |-> "timezone", offset |-> 0]
        [] OTHER -> [type |-> "timezone",
                     offset |-> IF z[1] = "-" THEN -(60 * hours + minutes)
                                ELSE 60 * hours + minutes]

\* C9: an accepted DateTimeFormat input without designator is naive, with
\* "Z" it is UTC, and with a signed designator its offset has the sign of
\* the first character, the hours of the next two digits and the minutes of
\* the last two digits when the designator is longer than 3 characters.
C9_Designator ==
  Accepted /\ self.cls = "DateTimeFormat" => outcome.val.tzinfo = ZoneExpected

C9_Witness ==
  /\ Accepted
  /\ self.cls = "DateTimeFormat"
  /\ EndsWith(value, <<"-", "0", "8">>)
  /\ outcome.val.tzinfo = [type |-> "timezone", offset |-> -480]

ZERO_OFFSET == <<"+", "0", "0", ":", "0", "0">>

\* C10: DateTimeFormat.serialize of a timestamp with a zero UTC offset ends
\* in "Z" where the ISO rendering ends in "+00:00"; of any other timestamp it
\* is the ISO rendering.
C10_UTCAsZ ==
  pc = "serialized" /\ self.cls = "DateTimeFormat" =>
    LET v == outcome.val
        iso == DateTimeIso(v)
    IN  /\ text.tag = "ok" /\ text.val.type = "str"
        /\ IF v.tzinfo # None /\ v.tzinfo.offset = 0
           THEN /\ EndsWith(text.val.chars, <<"Z">>)
                /\ ~EndsWith(text.val.chars, ZERO_OFFSET)
                /\ Slice(text.val.chars, 1, Len(text.val.chars) - 1) \o ZERO_OFFSET = iso
           ELSE text.val.chars = iso

\* the negative zero offset "-0000" serialized as "Z"
C10_Witness ==
  /\ pc = "serialized"
  /\ self.cls = "DateTimeFormat"
  /\ EndsWith(value, <<"-", "0", "0", "0", "0">>)
  /\ EndsWith(text.val.chars, <<"Z">>)

====
